---- MODULE Spec2Model ----
(***************************************************************************)
(* Model of the dashboard in src/main.py: the session gate (login, logout, *)
(* the authentication check at the top of every script run), the query     *)
(* gateway (get_db_connection, execute_query), the approval webhook and    *)
(* the script run that a widget interaction triggers.                      *)
(*                                                                         *)
(* A psycopg2 connection is modelled by its `closed` attribute and by the  *)
(* state of its transaction: "idle" (no transaction), "intrans" (a         *)
(* statement has begun one that was neither committed nor rolled back) and *)
(* "aborted" (a statement failed inside it: every further statement is     *)
(* refused until a rollback).  `with conn.cursor()` closes the cursor only *)
(* and neither commits nor rolls back.                                     *)
(***************************************************************************)
EXTENDS Integers, FiniteSets, Sequences, TLC

\* ------------------------------------------------------------------ bounds
MaxConns == 2
NumProducts == 1
NumContents == 1
NumSessions == 2

ConnIds == 1..MaxConns
ProductIds == 1..NumProducts
ContentIds == 1..NumContents

NoConn == 0
NoUser == "None"

\* ------------------------------------------------- the credential store
Usernames == {"alice", "bob", "mallory"}
Passwords == {"pwA", "pwB"}
StoredUsers == {"alice", "bob"}
StoredPassword == [u \in StoredUsers |-> IF u = "alice" THEN "pwA" ELSE "pwB"]

verify_dashboard_password(u, p) == u \in StoredUsers /\ StoredPassword[u] = p

\* ------------------------------------------------------------ vocabulary
Pages == {"Dashboard Overview", "Product Management", "Content Review",
          "Content Calendar", "Analytics Dashboard", "Settings"}

DefaultPage == "Dashboard Overview"

ProductStatuses == {"pending_content_generation", "content_generated", "published"}
ContentStatuses == {"pending_review", "rejected", "approved"}
Absent == "absent"

MsgConnFailed == "Database connection failed"
MsgInvalidLogin == "Invalid username or password"
MsgLoginOk == "Login successful!"
MsgQueryFailed == "Query execution failed"
MsgWebhookUnset == "Webhook URL not configured"
MsgWebhookFailed == "Failed to send approval"

\* What the environment does to one gateway call.
\*   connect_fail  psycopg2.connect raises (database unreachable)
\*   exec_error    the first statement raises a database error
\*   exec_lost     the first statement finds the connection dead
\*   update_error  the last_login UPDATE raises a database error
\*   update_lost   the last_login UPDATE finds the connection dead
\*   commit_lost   conn.commit() finds the connection dead
\*   rollback_lost the statement raises a database error and the rollback
\*                 that follows finds the connection dead
QueryFaults == {"ok", "connect_fail", "exec_error", "exec_lost", "commit_lost",
                "rollback_lost"}

LoginFaults == {"ok", "connect_fail", "exec_error", "exec_lost", "update_error",
                "update_lost", "commit_lost"}

\* Results of execute_query: None, True, or the fetched rows.
ResNone == [kind |-> "none", rows |-> {}]
ResTrue == [kind |-> "true", rows |-> {}]
ResRows(rs) == [kind |-> "rows", rows |-> rs]
Truthy(r) == r.kind = "true" \/ (r.kind = "rows" /\ r.rows # {})

VARIABLES
    authenticated,   \* st.session_state.authenticated
    username,        \* st.session_state.username
    db_connection,   \* st.session_state.db_connection (NoConn for None)
    confirm_delete,  \* product ids p with st.session_state["confirm_delete_p"] set
    show_reject,     \* content id -> "absent" | "true" | "false"
    page,            \* the sidebar radio's selection
    rerun,           \* st.rerun() was called: the next run has no widget event
    conn_closed,     \* connection id -> its `closed` attribute
    conn_tx,         \* connection id -> "idle" | "intrans" | "aborted"
    products,        \* products table: id -> status or Absent
    content,         \* content table: id -> status
    last_login,      \* dashboard_users.last_login: user -> "stale" | "now"
    webhook_url,     \* N8N_WEBHOOK_URL is set
    api_key,         \* UPLOAD_POST_API_KEY is set
    status_filter,   \* Content Review's "Filter by Status" selection
    last,            \* what the last script run did
    call,            \* what the last single gateway call did
    pure,             \* the inputs and the result of a function applied on its own
    sessions,        \* the session state of every session but the one running
    current          \* the session whose script runs

vars == <<authenticated, username, db_connection, confirm_delete, show_reject,
          page, rerun, conn_closed, conn_tx, products, content, last_login,
          webhook_url, api_key, status_filter, last, call, pure, sessions, current>>

\* ------------------------------------------------------------------------
\* The part of the state the gateway functions read and write, as a record.
Sessions == 1..NumSessions

\* The connection objects the other sessions reference.
Held == {sessions[s].db_connection : s \in Sessions \ {current}} \ {NoConn}

World == [conn |-> db_connection, closed |-> conn_closed, tx |-> conn_tx,
          products |-> products, last_login |-> last_login, msgs |-> {}, held |-> Held]

IsOpen(w, c) == c # NoConn /\ ~w.closed[c]

\* psycopg2.connect() handing out the connection object another session holds.
FreeIds_shared(w) == {c \in ConnIds : c # w.conn}

\* Connections that exist: open ones.  A closed connection object that no
\* session references any more is garbage and its id can be used again.
FreeIds(w) == {c \in ConnIds : w.closed[c] /\ c # w.conn /\ c \notin w.held}

Say(w, m) == [w EXCEPT !.msgs = @ \cup {m}]

\* get_db_connection connecting anew on every call.
get_db_connection_fresh(w, f) ==
    IF f = "connect_fail" \/ FreeIds(w) = {}
    THEN [w |-> Say(w, MsgConnFailed), conn |-> NoConn]
    ELSE LET c == CHOOSE x \in FreeIds(w) : \A y \in FreeIds(w) : x <= y
         IN [w |-> [w EXCEPT !.conn = c, !.closed[c] = FALSE, !.tx[c] = "idle"],
             conn |-> c]

get_db_connection(w, f) ==
    IF IsOpen(w, w.conn)
    THEN [w |-> w, conn |-> w.conn]
    ELSE IF f = "connect_fail" \/ FreeIds(w) = {}
         THEN [w |-> Say(w, MsgConnFailed), conn |-> NoConn]
         ELSE LET c == CHOOSE x \in FreeIds(w) : \A y \in FreeIds(w) : x <= y
              IN [w |-> [w EXCEPT !.conn = c, !.closed[c] = FALSE, !.tx[c] = "idle"],
                  conn |-> c]

\* The connection is found dead: psycopg2 marks it closed.
Lose(w, c) == [w EXCEPT !.closed[c] = TRUE, !.tx[c] = "idle"]

\* cur.execute(sql): raises when the connection is dead, when the
\* transaction is already aborted, or when the statement fails (and then
\* the transaction becomes aborted); otherwise the statement runs inside the
\* connection's transaction, which it begins when there is none.
CurExecute(w, c, dead, sqlError) ==
    IF dead THEN [w |-> Lose(w, c), raised |-> TRUE]
    ELSE IF w.tx[c] = "aborted" THEN [w |-> w, raised |-> TRUE]
    ELSE IF sqlError THEN [w |-> [w EXCEPT !.tx[c] = "aborted"], raised |-> TRUE]
    ELSE [w |-> [w EXCEPT !.tx[c] = "intrans"], raised |-> FALSE]

\* conn.commit(): raises when the connection is dead; otherwise the
\* transaction ends.
ConnCommit(w, c, dead) ==
    IF dead THEN [w |-> Lose(w, c), raised |-> TRUE]
    ELSE [w |-> [w EXCEPT !.tx[c] = "idle"], raised |-> FALSE]

\* conn.rollback(): the same, and whatever the transaction wrote is dropped.
ConnRollback(w, c, dead) ==
    IF dead THEN [w |-> Lose(w, c), raised |-> TRUE]
    ELSE [w |-> [w EXCEPT !.tx[c] = "idle"], raised |-> FALSE]

\* ------------------------------------------------------------ verify_login
\* Returns the world after the call, the value returned and what the SELECT
\* returned as is_valid ("none" when it returned nothing).
LoginOutcome(w, ok, check) == [w |-> w, ok |-> ok, check |-> check]

\* verify_login returning True as soon as the check is valid, without the
\* last_login UPDATE and its commit.
verify_login_unstamped(w0, u, p, f) ==
    LET g == get_db_connection(w0, f) IN
    IF g.conn = NoConn THEN LoginOutcome(g.w, FALSE, "none")
    ELSE
    LET sel == CurExecute(g.w, g.conn, f = "exec_lost", f = "exec_error")
    IN  IF sel.raised THEN LoginOutcome(sel.w, FALSE, "none")
        ELSE IF ~verify_dashboard_password(u, p)
        THEN LoginOutcome(sel.w, FALSE, "invalid")
        ELSE LoginOutcome(sel.w, TRUE, "valid")

\* After conn.commit() (line 149).
verify_login_committed(com, u) ==
    IF com.raised THEN LoginOutcome(com.w, FALSE, "valid")
    ELSE LoginOutcome([com.w EXCEPT !.last_login[u] = "now"], TRUE, "valid")

\* After the last_login UPDATE (lines 145-148).
verify_login_updated(upd, c, u, f) ==
    IF upd.raised THEN LoginOutcome(upd.w, FALSE, "valid")
    ELSE verify_login_committed(ConnCommit(upd.w, c, f = "commit_lost"), u)

\* After the SELECT of the credential check (lines 137-143).
verify_login_checked(sel, c, u, p, f) ==
    IF sel.raised THEN LoginOutcome(sel.w, FALSE, "none")
    ELSE IF ~verify_dashboard_password(u, p) THEN LoginOutcome(sel.w, FALSE, "invalid")
    ELSE verify_login_updated(CurExecute(sel.w, c, f = "update_lost", f = "update_error"),
                              c, u, f)

\* After get_db_connection() (lines 132-134).
verify_login_connected(g, u, p, f) ==
    IF g.conn = NoConn THEN LoginOutcome(g.w, FALSE, "none")
    ELSE verify_login_checked(CurExecute(g.w, g.conn, f = "exec_lost", f = "exec_error"),
                              g.conn, u, p, f)

verify_login(w0, u, p, f) == verify_login_connected(get_db_connection(w0, f), u, p, f)

\* ----------------------------------------------------------- the statements
\* A statement is a record: kind and, where it has one, the row it names.
\*   select_products  the product listing         select_content  the review list
\*   select_other     every other SELECT          insert_product  Add Product
\*   update_status    Regenerate Content          delete_product  Yes, Delete
\*   invalid          a statement the database refuses
ReadKinds == {"select_products", "select_content", "select_other"}
WriteKinds == {"insert_product", "update_status", "delete_product"}

Stmt(kind, arg) == [kind |-> kind, arg |-> arg, flt |-> ""]
ContentStmt(flt) == [kind |-> "select_content", arg |-> 0, flt |-> flt]

\* The database refuses the statement: bad SQL, or a second row with the
\* product_id of an existing one.
SqlRefuses(stmt, w) ==
    \/ stmt.kind = "invalid"
    \/ stmt.kind = "insert_product" /\ w.products[stmt.arg] # Absent

\* An INSERT that stores the row as already generated.
SqlApply_generated(stmt, tbl) ==
    CASE stmt.kind = "insert_product" -> [tbl EXCEPT ![stmt.arg] = "content_generated"]
      [] stmt.kind = "update_status" ->
            IF tbl[stmt.arg] = Absent THEN tbl
            ELSE [tbl EXCEPT ![stmt.arg] = "pending_content_generation"]
      [] stmt.kind = "delete_product" -> [tbl EXCEPT ![stmt.arg] = Absent]
      [] OTHER -> tbl

\* An UPDATE that creates the row it does not find.
SqlApply_upserting(stmt, tbl) ==
    CASE stmt.kind \in {"insert_product", "update_status"} ->
            [tbl EXCEPT ![stmt.arg] = "pending_content_generation"]
      [] stmt.kind = "delete_product" -> [tbl EXCEPT ![stmt.arg] = Absent]
      [] OTHER -> tbl

\* The table after a write.
SqlApply(stmt, tbl) ==
    CASE stmt.kind = "insert_product" -> [tbl EXCEPT ![stmt.arg] = "pending_content_generation"]
      [] stmt.kind = "update_status" ->
            IF tbl[stmt.arg] = Absent THEN tbl
            ELSE [tbl EXCEPT ![stmt.arg] = "pending_content_generation"]
      [] stmt.kind = "delete_product" -> [tbl EXCEPT ![stmt.arg] = Absent]
      [] OTHER -> tbl

\* The rows a SELECT returns (stmt.flt is the status filter of the review list).
\* The product each content item is joined with is taken to exist.
SqlRows(stmt, w, cont) ==
    CASE stmt.kind = "select_products" ->
            {[id |-> i, status |-> w.products[i]] : i \in {j \in ProductIds : w.products[j] # Absent}}
      [] stmt.kind = "select_content" ->
            {[id |-> i, status |-> cont[i]] :
                i \in {j \in ContentIds : stmt.flt = "All" \/ cont[j] = stmt.flt}}
      [] OTHER -> {[id |-> 0, status |-> "row"]}

\* ----------------------------------------------------------- execute_query
QueryOutcome(w, result, raised) == [w |-> w, result |-> result, raised |-> raised]

\* The except branch without the rollback.
QueryFailed_unrolled(w, c, f) == QueryOutcome(Say(w, MsgQueryFailed), ResNone, FALSE)

\* The except branch with a bare conn.rollback(): its failure escapes.
QueryFailed_bare(w, c, f) ==
    LET rb == IF IsOpen(w, c) THEN ConnRollback(w, c, f = "rollback_lost")
              ELSE [w |-> w, raised |-> FALSE]
    IN IF rb.raised THEN QueryOutcome(rb.w, ResNone, TRUE)
       ELSE QueryOutcome(Say(rb.w, MsgQueryFailed), ResNone, FALSE)

\* The except branch: roll back when the connection is still open (a failing
\* rollback is swallowed), show the error, return None.
QueryFailed(w, c, f) ==
    LET rb == IF IsOpen(w, c) THEN ConnRollback(w, c, f = "rollback_lost").w ELSE w
    IN QueryOutcome(Say(rb, MsgQueryFailed), ResNone, FALSE)

\* After conn.commit() (line 209).
execute_query_committed(com, c, stmt, f) ==
    IF com.raised THEN QueryFailed(com.w, c, f)
    ELSE QueryOutcome([com.w EXCEPT !.products = SqlApply(stmt, @)], ResTrue, FALSE)

\* After cur.execute(query, params) (line 204).
execute_query_executed(ex, c, stmt, fetch, f, cont) ==
    IF ex.raised THEN QueryFailed(ex.w, c, f)
    ELSE IF fetch
    THEN IF stmt.kind \in ReadKinds
         THEN QueryOutcome(ex.w, ResRows(SqlRows(stmt, ex.w, cont)), FALSE)
         ELSE QueryFailed(ex.w, c, f)   \* fetchall(): no results to fetch
    ELSE execute_query_committed(ConnCommit(ex.w, c, f = "commit_lost"), c, stmt, f)

\* After get_db_connection() (lines 199-201).
execute_query_connected(g, stmt, fetch, f, cont) ==
    IF g.conn = NoConn THEN QueryOutcome(g.w, ResNone, FALSE)
    ELSE execute_query_executed(
            CurExecute(g.w, g.conn, f = "exec_lost",
                       f \in {"exec_error", "rollback_lost"} \/ SqlRefuses(stmt, g.w)),
            g.conn, stmt, fetch, f, cont)

execute_query(w0, stmt, fetch, f, cont) ==
    execute_query_connected(get_db_connection(w0, f), stmt, fetch, f, cont)

\* --------------------------------------------------- send_approval_webhook
\* What the environment does to one HTTP request.
HttpFaults == {"ok", "timeout", "network", "http_error"}
Reasons == {"", "too long"}

NoPayload == [content_id |-> 0, action |-> "none", has_reason |-> FALSE, reason |-> ""]

\* The JSON body with the reason key always present.
Payload_reasoned(content_id, action, reason) ==
    [content_id |-> content_id, action |-> action, has_reason |-> TRUE, reason |-> reason]

\* The JSON body: the reason key is present when the reason is truthy.
Payload(content_id, action, reason) ==
    [content_id |-> content_id, action |-> action,
     has_reason |-> reason # "", reason |-> reason]

\* send_approval_webhook posting a second time when the first POST failed.
send_approval_webhook_retrying(w, content_id, action, reason, hf) ==
    IF ~webhook_url
    THEN [w |-> Say(w, MsgWebhookUnset), ok |-> FALSE, posts |-> 0, payload |-> NoPayload]
    ELSE IF hf # "ok"
    THEN [w |-> Say(w, MsgWebhookFailed), ok |-> FALSE, posts |-> 2,
          payload |-> Payload(content_id, action, reason)]
    ELSE [w |-> w, ok |-> TRUE, posts |-> 1, payload |-> Payload(content_id, action, reason)]

\* Returns the world, the value returned, the number of POSTs made and the
\* body posted.
send_approval_webhook(w, content_id, action, reason, hf) ==
    IF ~webhook_url
    THEN [w |-> Say(w, MsgWebhookUnset), ok |-> FALSE, posts |-> 0, payload |-> NoPayload]
    ELSE IF hf # "ok"
    THEN [w |-> Say(w, MsgWebhookFailed), ok |-> FALSE, posts |-> 1,
          payload |-> Payload(content_id, action, reason)]
    ELSE [w |-> w, ok |-> TRUE, posts |-> 1, payload |-> Payload(content_id, action, reason)]

\* ----------------------------------------------- get_upload_post_analytics
\* What the analytics endpoint does to one GET:
\*   ok          a 2xx answer whose body is a non-empty JSON object
\*   empty       a 2xx answer whose body is an empty JSON object
\*   timeout     no answer within 30 seconds (requests.get raises)
\*   network     the connection fails (requests.get raises)
\*   http_error  a non-2xx answer (raise_for_status raises)
\*   bad_body    a 2xx answer whose body is no JSON (response.json() raises)
GetOutcomes == {"ok", "empty", "timeout", "network", "http_error", "bad_body"}
GetFaults == {"timeout", "network", "http_error", "bad_body"}

NoAnalytics == [data |-> "none", gets |-> 0, raised |-> FALSE]

\* get_upload_post_analytics with response.json() after the try block.
get_upload_post_analytics_unparsed(hf) ==
    IF ~api_key THEN NoAnalytics
    ELSE IF hf \in {"timeout", "network", "http_error"}
    THEN [data |-> "none", gets |-> 1, raised |-> FALSE]
    ELSE IF hf = "bad_body" THEN [data |-> "none", gets |-> 1, raised |-> TRUE]
    ELSE [data |-> IF hf = "empty" THEN "empty" ELSE "data", gets |-> 1, raised |-> FALSE]

\* Returns what came back ("none" for None, "empty" for a falsy body, "data"),
\* the number of GETs made and whether an exception left the function.
get_upload_post_analytics(hf) ==
    IF ~api_key THEN NoAnalytics
    ELSE IF hf \in {"timeout", "network"}            \* requests.get raises
    THEN [data |-> "none", gets |-> 1, raised |-> FALSE]
    ELSE IF hf = "http_error"                        \* raise_for_status raises
    THEN [data |-> "none", gets |-> 1, raised |-> FALSE]
    ELSE IF hf = "bad_body"                          \* response.json() raises
    THEN [data |-> "none", gets |-> 1, raised |-> FALSE]
    ELSE [data |-> IF hf = "empty" THEN "empty" ELSE "data", gets |-> 1, raised |-> FALSE]

\* ------------------------------------------------------------- login_page
NoLogin == [user |-> NoUser, password |-> "", ok |-> FALSE, check |-> "none",
            fault |-> "ok", submitted |-> FALSE, after_error |-> FALSE]

\* The branches on verify_login's value v (lines 173-179).
login_page_submitted(v, u) ==
    IF v.ok
    THEN [w |-> Say(v.w, MsgLoginOk), authenticated |-> TRUE, username |-> u,
          rerun |-> TRUE, v |-> v]
    ELSE [w |-> Say(v.w, MsgInvalidLogin), authenticated |-> authenticated,
          username |-> username, rerun |-> FALSE, v |-> v]

\* A submitted login form: the session's authenticated flag and username
\* after it, the messages shown and whether st.rerun() was called.
login_page(w0, u, p, f) == login_page_submitted(verify_login(w0, u, p, f), u)

\* ------------------------------------------------------------------ logout
\* logout dropping the stored connection without closing it.
logout_unclosed(w) ==
    [w |-> [w EXCEPT !.conn = NoConn],
     authenticated |-> FALSE, username |-> NoUser,
     confirm_delete |-> confirm_delete, show_reject |-> show_reject, rerun |-> TRUE]

\* Closes the stored connection when it is open, then resets the three
\* session keys and reruns.  The per-item keys are not touched.
logout(w) ==
    [w |-> IF IsOpen(w, w.conn)
           THEN [w EXCEPT !.closed[w.conn] = TRUE, !.tx[w.conn] = "idle", !.conn = NoConn]
           ELSE [w EXCEPT !.conn = NoConn],
     authenticated |-> FALSE, username |-> NoUser,
     confirm_delete |-> confirm_delete, show_reject |-> show_reject, rerun |-> TRUE]

\* ------------------------------------------------- the product listing
\* Titles and search terms are sequences of characters.
Chars == {"a", "A", "b", "_"}
MaxTermLen == 2
Terms == UNION {[1..n -> Chars] : n \in 0..MaxTermLen}

Lower(ch) == CASE ch = "A" -> "a" [] ch = "B" -> "b" [] OTHER -> ch

Sources == {"manual", "shopify"}
Categories == {"Accessories", "Electronics"}

\* LIMIT 50 of the listing query.
ListLimit == 50

\* A seeded products table: five products across two sources.
Seeded ==
    {[id |-> 1, source |-> "manual", status |-> "pending_content_generation",
      category |-> "Accessories", title |-> <<"a", "b">>],
     [id |-> 2, source |-> "manual", status |-> "published",
      category |-> "Electronics", title |-> <<"A">>],
     [id |-> 3, source |-> "shopify", status |-> "pending_content_generation",
      category |-> "Accessories", title |-> <<"b", "_">>],
     [id |-> 4, source |-> "shopify", status |-> "published",
      category |-> "Accessories", title |-> <<"B", "a">>],
     [id |-> 5, source |-> "shopify", status |-> "content_generated",
      category |-> "Electronics", title |-> <<"b">>]}

\* A table of more rows than the listing's LIMIT, all alike but for the id.
Crowded ==
    {[id |-> i, source |-> "manual", status |-> "published",
      category |-> "Accessories", title |-> <<"a">>] : i \in 1..(ListLimit + 1)}

Tables == SUBSET Seeded \cup {Crowded}

\* PostgreSQL's (I)LIKE on lower-cased operands: % matches any run of
\* characters, _ matches any one character, anything else matches itself.
RECURSIVE LikeMatch(_, _)
LikeMatch(pat, str) ==
    IF pat = <<>> THEN str = <<>>
    ELSE IF Head(pat) = "%"
    THEN LikeMatch(Tail(pat), str) \/ (str # <<>> /\ LikeMatch(pat, Tail(str)))
    ELSE /\ str # <<>>
         /\ Head(pat) = "_" \/ Lower(Head(pat)) = Lower(Head(str))
         /\ LikeMatch(Tail(pat), Tail(str))

\* The WHERE clause the query builder assembles (lines 823-839): one
\* condition per filter that is not "All", and title ILIKE %term% when the
\* search term is not empty.
ListingConditions(fsource, fstatus, fcategory, term) ==
    (IF fsource # "All" THEN <<[col |-> "source", val |-> fsource]>> ELSE <<>>)
    \o (IF fstatus # "All" THEN <<[col |-> "status", val |-> fstatus]>> ELSE <<>>)
    \o (IF fcategory # "All" THEN <<[col |-> "category", val |-> fcategory]>> ELSE <<>>)
    \o (IF term # <<>> THEN <<[col |-> "title", val |-> <<"%">> \o term \o <<"%">>]>>
        ELSE <<>>)

RowSatisfies(row, cond) ==
    CASE cond.col = "source" -> row.source = cond.val
      [] cond.col = "status" -> row.status = cond.val
      [] cond.col = "category" -> row.category = cond.val
      [] OTHER -> LikeMatch(cond.val, row.title)

\* ORDER BY created_at DESC LIMIT 50: rows are created in the order of their
\* ids, and the newest ListLimit of the matching rows are returned.
Newest(rows) == {r \in rows : Cardinality({x \in rows : x.id > r.id}) < ListLimit}

\* The rows the listing query returns.
ProductListing(table, fsource, fstatus, fcategory, term) ==
    Newest({row \in table :
              \A i \in DOMAIN ListingConditions(fsource, fstatus, fcategory, term) :
                  RowSatisfies(row, ListingConditions(fsource, fstatus, fcategory, term)[i])})

\* ------------------------------------------------------- the script run
\* The largest number of execute_query calls one run makes (sidebar stats
\* and the three Analytics Dashboard queries).
MaxCallsPerRun == 4

AllOk == [i \in 1..MaxCallsPerRun |-> "ok"]

\* What the database does during a run of at most n execute_query calls:
\* nothing, one fault at one call, or unreachable throughout.
DbPlans(n) ==
    {AllOk} \cup {[i \in 1..MaxCallsPerRun |-> "connect_fail"]}
    \cup {[i \in 1..MaxCallsPerRun |-> IF i = at THEN k ELSE "ok"] :
            at \in 1..n, k \in QueryFaults \ {"ok"}}

\* The environment of one run: the database plan of its execute_query calls,
\* which GET fails (0: none) and how (gf; for the sidebar's GET gf can also
\* say that it returned an empty body), what happens to the webhook POST and
\* what happens to verify_login, and whether another operator's session
\* commits its DELETE of the same product after this run's listing query
\* returned (race).  At most one of them misbehaves.
Env(d, g, h, f) ==
    [db |-> d, get |-> g, gf |-> IF g = 0 THEN "ok" ELSE "timeout", post |-> h, login |-> f,
     race |-> FALSE]

\* The environments of a run that makes at most n execute_query calls and
\* g GETs, and a POST when posts is true.
Envs(n, g, posts) ==
    {Env(d, 0, "ok", "ok") : d \in DbPlans(n)}
    \cup {Env(AllOk, k, "ok", "ok") : k \in 1..g}
    \cup {[Env(AllOk, 1, "ok", "ok") EXCEPT !.gf = x] :
            x \in IF g >= 1 THEN GetOutcomes \ {"ok", "timeout"} ELSE {}}
    \cup {Env(AllOk, 0, h, "ok") : h \in IF posts THEN HttpFaults \ {"ok"} ELSE {}}

\* The environment of a submitted login form: what happens to verify_login.
LoginEnvs == {Env(AllOk, 0, "ok", f) : f \in LoginFaults}

NoWebhook == [called |-> FALSE, ok |-> FALSE, payload |-> NoPayload, http |-> "ok",
              sr_before |-> "absent", conn_before |-> NoConn]

\* The state of a run in progress: the world, the calls made so far, the
\* per-item session keys, whether st.rerun() ended the run, what the
\* sidebar's analytics fetch returned, whether the sidebar showed the
\* follower and view metrics, whether an exception ended the run, the kinds
\* of the statements handed to execute_query, and the rows of the product
\* listing when its query returned some.
RunStart ==
    [w |-> [World EXCEPT !.last_login = [u \in StoredUsers |-> "stale"]],
     authenticated |-> authenticated, username |-> username,
     nq |-> 0, ng |-> 0, np |-> 0, cd |-> confirm_delete, sr |-> show_reject,
     rr |-> FALSE, webhook |-> NoWebhook, result |-> ResNone,
     rendered |-> {}, login |-> NoLogin,
     analytics |-> NoAnalytics, afault |-> "ok", metrics |-> FALSE, crashed |-> FALSE,
     stmts |-> {}, listing |-> {}, raced |-> FALSE, nfail |-> 0]

\* The run after an execute_query call that ended as o.
Queried(r, o) == [r EXCEPT !.w = o.w, !.nq = @ + 1, !.result = o.result]

\* One execute_query call of the run; nfail counts the calls that the
\* environment disturbed (connection refused or lost, statement failed).
Q(r, stmt, fetch, e) ==
    Queried([r EXCEPT !.stmts = @ \cup {stmt.kind},
                      !.nfail = IF e.db[r.nq + 1] = "ok" THEN @ ELSE @ + 1],
            execute_query(r.w, stmt, fetch, e.db[r.nq + 1], content))

\* One requests.get of the run inside a try block; ok says whether it returned.
G(r, e) == [r |-> [r EXCEPT !.ng = @ + 1], ok |-> e.get # r.ng + 1]

\* The run after a send_approval_webhook call that ended as o.
Posted(r, content_id, o, e) ==
    [r EXCEPT !.w = o.w, !.np = @ + o.posts,
              !.webhook = [called |-> TRUE, ok |-> o.ok, payload |-> o.payload,
                           http |-> e.post, sr_before |-> r.sr[content_id],
                           conn_before |-> r.w.conn]]

\* One send_approval_webhook call of the run.
W(r, content_id, action, reason, e) ==
    Posted(r, content_id, send_approval_webhook(r.w, content_id, action, reason, e.post), e)

Rows(r) == IF r.result.kind = "rows" THEN r.result.rows ELSE {}
Ids(r) == {x.id : x \in Rows(r)}

\* The sidebar after the analytics fetch ended as a: the two metrics when
\* the data is truthy, then the quick-stats query.
SidebarStats(r, a, e) ==
    IF a.raised THEN [r EXCEPT !.ng = @ + a.gets, !.analytics = a, !.crashed = TRUE]
    ELSE Q([r EXCEPT !.ng = @ + a.gets, !.analytics = a, !.metrics = (a.data = "data")],
           Stmt("select_other", 0), TRUE, e)

\* Sidebar: the analytics GET and the quick-stats query.
Sidebar(r, e) ==
    SidebarStats([r EXCEPT !.afault = IF e.get = 1 THEN e.gf ELSE "ok"],
                 get_upload_post_analytics(IF e.get = 1 THEN e.gf ELSE "ok"), e)

\* Dashboard Overview making its GETs without looking at the API key.
DashboardOverview_unguarded(r, e) ==
    LET g1 == G(r, e)
        g2 == IF g1.ok THEN G(g1.r, e).r ELSE g1.r
    IN Q(Q(g2, Stmt("select_other", 0), TRUE, e), Stmt("select_other", 0), TRUE, e)

\* Dashboard Overview: the analytics GET, the history GET when the first
\* returned, then the metrics and recent-posts queries.
DashboardOverview(r, e) ==
    LET g1 == IF api_key THEN G(r, e) ELSE [r |-> r, ok |-> FALSE]
        g2 == IF g1.ok THEN G(g1.r, e).r ELSE g1.r
    IN Q(Q(g2, Stmt("select_other", 0), TRUE, e), Stmt("select_other", 0), TRUE, e)

ContentCalendar(r, e) == Q(r, Stmt("select_other", 0), TRUE, e)

\* Analytics Dashboard: two GETs in separate try blocks, three queries.
AnalyticsDashboard(r, e) ==
    LET g1 == IF api_key THEN G(r, e).r ELSE r
        g2 == IF api_key THEN G(g1, e).r ELSE g1
    IN Q(Q(Q(g2, Stmt("select_other", 0), TRUE, e), Stmt("select_other", 0), TRUE, e),
         Stmt("select_other", 0), TRUE, e)

Settings(r, e) == Q(Q(r, Stmt("select_other", 0), TRUE, e), Stmt("select_other", 0), TRUE, e)

MsgRequired == "Product ID, Title, and Description are required fields"
MsgPrice == "Price must be greater than 0"
MsgAdded == "Product added successfully"
MsgAddFailed == "Failed to add product"
MsgRegenerated == "Product queued for content regeneration"
MsgDeleted == "Product deleted successfully"
MsgApproved == "Content approved successfully"
MsgRejected == "Content rejected"

Tell(r, m) == [r EXCEPT !.w = Say(@, m)]

\* A widget event: its kind, the item it belongs to (0: none), the page or
\* filter selected, the rejection reason typed and the Add Product form's fields.
NoForm == [pid |-> 0, filled |-> FALSE, price |-> 0]
Event(kind, item, sel) ==
    [kind |-> kind, item |-> item, sel |-> sel, reason |-> "", form |-> NoForm,
     user |-> NoUser, password |-> ""]

\* The messages after the INSERT (lines 765-771).
Added(q) == IF Truthy(q.result) THEN Tell(q, MsgAdded) ELSE Tell(q, MsgAddFailed)

\* The form handler without the price check.
AddProduct_unpriced(r, form, e) ==
    IF form.pid = 0 \/ ~form.filled THEN Tell(r, MsgRequired)
    ELSE Added(Q(r, Stmt("insert_product", form.pid), FALSE, e))

\* The Add Product form handler: validation, then the INSERT.
AddProduct(r, form, e) ==
    IF form.pid = 0 \/ ~form.filled THEN Tell(r, MsgRequired)
    ELSE IF form.price <= 0 THEN Tell(r, MsgPrice)
    ELSE Added(Q(r, Stmt("insert_product", form.pid), FALSE, e))

\* After the UPDATE of Regenerate Content (lines 924-926).
Regenerated(q) ==
    IF Truthy(q.result) THEN [Tell(q, MsgRegenerated) EXCEPT !.rr = TRUE] ELSE q

\* After the DELETE of Yes, Delete (lines 940-944).
Deleted(q, item) ==
    IF Truthy(q.result)
    THEN [Tell(q, MsgDeleted) EXCEPT !.cd = @ \ {item}, !.rr = TRUE]
    ELSE q

\* The row of a listed product is deleted by another operator's session
\* before this run reaches the product's buttons.
Raced(r, item, e) ==
    IF e.race THEN [r EXCEPT !.w.products[item] = Absent, !.raced = TRUE] ELSE r

\* Delete Product issuing the DELETE at once, without the confirmation.
ProductCard_onestep(r, ev, e) ==
    CASE ev.kind = "regen" -> Regenerated(Q(r, Stmt("update_status", ev.item), FALSE, e))
      [] ev.kind = "delete" ->
            Deleted(Q(r, Stmt("delete_product", ev.item), FALSE, e), ev.item)
      [] ev.kind = "cancel" /\ ev.item \in r.cd -> [r EXCEPT !.cd = @ \ {ev.item}, !.rr = TRUE]
      [] OTHER -> r

\* The buttons of one listed product.
ProductCard(r, ev, e) ==
    CASE ev.kind = "regen" ->
            Regenerated(Q(Raced(r, ev.item, e), Stmt("update_status", ev.item), FALSE, e))
      [] ev.kind = "delete" -> [r EXCEPT !.cd = @ \cup {ev.item}]
      [] ev.kind = "yes_delete" /\ ev.item \in r.cd ->
            Deleted(Q(Raced(r, ev.item, e), Stmt("delete_product", ev.item), FALSE, e),
                    ev.item)
      [] ev.kind = "cancel" /\ ev.item \in r.cd -> [r EXCEPT !.cd = @ \ {ev.item}, !.rr = TRUE]
      [] OTHER -> r

\* The listing l: the cards of the products found, or the statistics.
ProductCards(l, ev, e) ==
    IF Ids(l) = {} THEN Q(l, Stmt("select_other", 0), TRUE, e)
    ELSE IF ev.item \in Ids(l) THEN ProductCard(l, ev, e)
    ELSE l

ProductList(l, ev, e) == ProductCards([l EXCEPT !.listing = Rows(l)], ev, e)

\* Product Management: both tabs are evaluated in every run.
ProductManagement(r, ev, e) ==
    IF ev.kind = "clear_form" THEN [r EXCEPT !.rr = TRUE]
    ELSE ProductList(Q(IF ev.kind = "add" THEN AddProduct(r, ev.form, e) ELSE r,
                       Stmt("select_products", 0), TRUE, e),
                     ev, e)

\* After the webhook call of Approve (lines 1080-1083).
Approved(h) == IF h.webhook.ok THEN [Tell(h, MsgApproved) EXCEPT !.rr = TRUE] ELSE h

\* After the webhook call of Confirm Reject (lines 1093-1097).
Rejected(h, item) ==
    IF h.webhook.ok
    THEN [Tell(h, MsgRejected) EXCEPT !.sr[item] = "false", !.rr = TRUE]
    ELSE h

\* The Reject button posting the rejection at once.
ContentCard_eager(r, ev, e) ==
    CASE ev.kind = "approve" -> Approved(W(r, ev.item, "approve", "", e))
      [] ev.kind = "reject" -> Rejected(W(r, ev.item, "reject", "", e), ev.item)
      [] OTHER -> r

\* Approve writing the status itself before it calls the webhook.
ContentCard_writing(r, ev, e) ==
    CASE ev.kind = "approve" ->
            Approved(W(Q(r, Stmt("update_status", ev.item), FALSE, e),
                       ev.item, "approve", "", e))
      [] ev.kind = "reject" -> [r EXCEPT !.sr[ev.item] = "true"]
      [] ev.kind = "confirm_reject" /\ r.sr[ev.item] = "true" ->
            Rejected(W(r, ev.item, "reject", ev.reason, e), ev.item)
      [] OTHER -> r

\* The buttons of one listed content item.
ContentCard(r, ev, e) ==
    CASE ev.kind = "approve" -> Approved(W(r, ev.item, "approve", "", e))
      [] ev.kind = "reject" -> [r EXCEPT !.sr[ev.item] = "true"]
      [] ev.kind = "confirm_reject" /\ r.sr[ev.item] = "true" ->
            Rejected(W(r, ev.item, "reject", ev.reason, e), ev.item)
      [] OTHER -> r

\* Every run of Content Review asking for a rerun.
ContentList_rerunning(l, ev, e) ==
    IF ev.item \in Ids(l) THEN ContentCard(l, ev, e) ELSE [l EXCEPT !.rr = TRUE]

\* The listing l: the cards of the items found.
ContentList(l, ev, e) == IF ev.item \in Ids(l) THEN ContentCard(l, ev, e) ELSE l

\* Content Review: the listing under the status filter, then the cards.
ContentReview(r, ev, flt, e) == ContentList(Q(r, ContentStmt(flt), TRUE, e), ev, e)

DefaultFilter == "pending_review"
Filters == {"pending_review", "All", "rejected"}

\* The page and the filter this run evaluates.
PageOf(ev) == IF ev.kind = "nav" THEN ev.sel ELSE page
FilterOf(ev) ==
    IF PageOf(ev) # "Content Review" THEN DefaultFilter
    ELSE IF ev.kind = "filter" THEN ev.sel ELSE status_filter

\* The page the sidebar radio selects, after the sidebar s.
Page(s, ev, e) ==
    CASE PageOf(ev) = "Dashboard Overview" -> DashboardOverview(s, e)
      [] PageOf(ev) = "Product Management" -> ProductManagement(s, ev, e)
      [] PageOf(ev) = "Content Review" -> ContentReview(s, ev, FilterOf(ev), e)
      [] PageOf(ev) = "Content Calendar" -> ContentCalendar(s, e)
      [] PageOf(ev) = "Analytics Dashboard" -> AnalyticsDashboard(s, e)
      [] OTHER -> Settings(s, e)

\* The page is drawn unless an exception ended the run in the sidebar.
\* A run that drops the login when a database error was shown.
Expired(r) ==
    IF r.w.msgs \cap {MsgConnFailed, MsgQueryFailed} = {} THEN r
    ELSE [r EXCEPT !.authenticated = FALSE, !.username = NoUser]

SelectedPage_expiring(s, ev, e) ==
    IF s.crashed THEN s
    ELSE Expired(Page([s EXCEPT !.rendered = @ \cup {PageOf(ev)}], ev, e))

SelectedPage(s, ev, e) ==
    IF s.crashed THEN s
    ELSE Page([s EXCEPT !.rendered = @ \cup {PageOf(ev)}], ev, e)

\* Everything below the Logout button: sidebar, then the selected page.
Dashboard(r, ev, e) == SelectedPage(Sidebar(r, e), ev, e)

\* ----------------------------------------------------------- the script
\* The run after the form handler ended as o.
LoggedIn(r, ev, e, o) ==
    [r EXCEPT !.w = o.w, !.authenticated = o.authenticated,
              !.username = o.username, !.rr = o.rerun,
              !.rendered = @ \cup {"login"},
              !.login = [user |-> ev.user, password |-> ev.password,
                         ok |-> o.v.ok, check |-> o.v.check, fault |-> e.login,
                         submitted |-> TRUE,
                         after_error |-> last.login.submitted /\
                             last.login.fault \in {"exec_error", "update_error"}]]

\* The login page of a run: the form handler when the form was submitted.
LoginPage(r, ev, e) ==
    IF ev.kind # "login" THEN [r EXCEPT !.rendered = @ \cup {"login"}]
    ELSE LoggedIn(r, ev, e, login_page(r.w, ev.user, ev.password, e.login))

\* The run after logout() ended as o.
LoggedOut(r, o) ==
    [r EXCEPT !.w = o.w, !.authenticated = o.authenticated, !.username = o.username,
              !.cd = o.confirm_delete, !.sr = o.show_reject, !.rr = o.rerun]

\* The Logout button of a run.
LogoutButton(r) == LoggedOut(r, logout(r.w))

\* The script without st.stop() after login_page().
script_unstopped(ev, e) ==
    IF ~authenticated THEN Dashboard(LoginPage(RunStart, ev, e), ev, e)
    ELSE IF ev.kind = "logout" THEN LogoutButton(RunStart)
    ELSE Dashboard(RunStart, ev, e)

\* One run of the script, top to bottom: the authentication check with
\* st.stop(), the Logout button, the dashboard.
script(ev, e) ==
    IF ~authenticated THEN LoginPage(RunStart, ev, e)
    ELSE IF ev.kind = "logout" THEN LogoutButton(RunStart)
    ELSE Dashboard(RunStart, ev, e)

\* ------------------------------------------------------------ the actions
\* What a script run leaves behind for inspection.
Last(ev, r) ==
    [event |-> ev.kind, item |-> ev.item, startAuth |-> authenticated,
     rendered |-> r.rendered, nq |-> r.nq, ng |-> r.ng, np |-> r.np, msgs |-> r.w.msgs,
     conn_before |-> IF db_connection = NoConn THEN "absent"
                     ELSE IF conn_closed[db_connection] THEN "closed" ELSE "open",
     login |-> r.login, webhook |-> r.webhook,
     analytics |-> r.analytics, afault |-> r.afault, metrics |-> r.metrics,
     crashed |-> r.crashed, sidebar |-> authenticated /\ ev.kind \notin {"logout", "call", "init"},
     form |-> ev.form, products_before |-> products, products_after |-> r.w.products,
     stmts |-> r.stmts, listing |-> r.listing, raced |-> r.raced, reason |-> ev.reason,
     nfail |-> r.nfail]

\* What a single gateway call leaves behind for inspection.
NoStmt == Stmt("none", 0)
NoCall == [op |-> "none", stmt |-> NoStmt, fetch |-> FALSE, fault |-> "ok",
           result |-> ResNone, raised |-> FALSE, had_conn |-> FALSE,
           tx_before |-> "idle", refused |-> FALSE,
           products_before |-> [p \in ProductIds |-> Absent],
           prev_failed |-> FALSE, prev_invalid |-> FALSE]

SetWorld(w) ==
    /\ db_connection' = w.conn
    /\ conn_closed' = w.closed
    /\ conn_tx' = w.tx
    /\ products' = w.products
    /\ last_login' = w.last_login

TypeOK ==
    /\ authenticated \in BOOLEAN
    /\ username \in Usernames \cup {NoUser}
    /\ db_connection \in ConnIds \cup {NoConn}
    /\ confirm_delete \subseteq ProductIds
    /\ show_reject \in [ContentIds -> {"absent", "true", "false"}]
    /\ page \in Pages
    /\ rerun \in BOOLEAN
    /\ conn_closed \in [ConnIds -> BOOLEAN]
    /\ conn_tx \in [ConnIds -> {"idle", "intrans", "aborted"}]
    /\ products \in [ProductIds -> ProductStatuses \cup {Absent}]
    /\ content \in [ContentIds -> ContentStatuses]
    /\ last_login \in [StoredUsers -> {"stale", "now"}]
    /\ webhook_url \in BOOLEAN
    /\ api_key \in BOOLEAN
    /\ status_filter \in Filters
    /\ current \in Sessions
    /\ sessions \in [Sessions -> [authenticated : BOOLEAN, username : Usernames \cup {NoUser},
                                  db_connection : ConnIds \cup {NoConn},
                                  confirm_delete : SUBSET ProductIds,
                                  show_reject : [ContentIds -> {"absent", "true", "false"}],
                                  page : Pages, rerun : BOOLEAN, status_filter : Filters]]

\* The session state of a session that has not run yet, and the place of
\* the running session among the others.
NoSession ==
    [authenticated |-> FALSE, username |-> NoUser, db_connection |-> NoConn,
     confirm_delete |-> {}, show_reject |-> [c \in ContentIds |-> "absent"],
     page |-> DefaultPage, rerun |-> FALSE, status_filter |-> DefaultFilter]

\* The session state of the running session.
ThisSession ==
    [authenticated |-> authenticated, username |-> username,
     db_connection |-> db_connection, confirm_delete |-> confirm_delete,
     show_reject |-> show_reject, page |-> page, rerun |-> rerun,
     status_filter |-> status_filter]

\* Lines 87-93 on a new session, with an empty products table; the webhook
\* URL and the API key are set or not, as urls and keys say.
InitState(urls, keys) ==
    /\ authenticated = FALSE
    /\ username = NoUser
    /\ db_connection = NoConn
    /\ confirm_delete = {}
    /\ show_reject = [c \in ContentIds |-> "absent"]
    /\ page = DefaultPage
    /\ rerun = FALSE
    /\ conn_closed = [c \in ConnIds |-> TRUE]
    /\ conn_tx = [c \in ConnIds |-> "idle"]
    /\ products = [p \in ProductIds |-> Absent]
    /\ content = [c \in ContentIds |-> "pending_review"]
    /\ last_login = [u \in StoredUsers |-> "stale"]
    /\ webhook_url \in urls
    /\ api_key \in keys
    /\ status_filter = DefaultFilter
    /\ sessions = [s \in Sessions |-> NoSession]
    /\ current = 1
    /\ last = Last(Event("init", 0, ""), RunStart)
    /\ call = NoCall

\* No function is applied on its own.
NoPure == [op |-> "none"]

InitWith(urls, keys) == InitState(urls, keys) /\ pure = NoPure

\* The execute_query calls and the GETs a run of each page makes at most.
CallsOf(pg) ==
    CASE pg = "Dashboard Overview" -> 3
      [] pg = "Product Management" -> 4
      [] pg = "Content Review" -> 2
      [] pg = "Content Calendar" -> 2
      [] pg = "Analytics Dashboard" -> 4
      [] OTHER -> 3

GetsOf(pg) ==
    IF ~api_key THEN 0
    ELSE IF pg \in {"Dashboard Overview", "Analytics Dashboard"} THEN 3 ELSE 1

EnvsOf(ev) ==
    Envs(CallsOf(PageOf(ev)), GetsOf(PageOf(ev)), ev.kind \in {"approve", "confirm_reject"})
    \cup {[Env(AllOk, 0, "ok", "ok") EXCEPT !.race = TRUE] :
            x \in IF ev.kind \in {"yes_delete", "regen"} THEN {1} ELSE {}}

\* One run of the script for a widget event under an environment.  The
\* sidebar radio and the status filter keep their selection only while a run
\* draws them.
Run(ev, e) ==
    \E r \in {script(ev, e)} :
        /\ SetWorld(r.w)
        /\ authenticated' = r.authenticated
        /\ username' = r.username
        /\ confirm_delete' = r.cd
        /\ show_reject' = r.sr
        /\ rerun' = r.rr
        /\ last' = Last(ev, r)
        /\ page' = IF authenticated THEN PageOf(ev) ELSE DefaultPage
        /\ status_filter' = IF authenticated /\ ev.kind # "logout" THEN FilterOf(ev)
                            ELSE DefaultFilter
        /\ call' = NoCall
        /\ UNCHANGED <<content, webhook_url, api_key, pure, sessions, current>>

\* No widget event: a page load, or the run that st.rerun() asked for.
View == LET ev == Event("view", 0, "") IN \E e \in EnvsOf(ev) : Run(ev, e)

\* The login form is submitted.
LoginSubmit ==
    /\ ~authenticated /\ ~rerun
    /\ \E u \in Usernames, p \in Passwords, e \in LoginEnvs :
        Run([Event("login", 0, "") EXCEPT !.user = u, !.password = p], e)

\* The Logout button is clicked.
Logout ==
    /\ authenticated /\ ~rerun
    /\ Run(Event("logout", 0, ""), Env(AllOk, 0, "ok", "ok"))

\* The sidebar radio is changed to one of the pages pgs.
NavigateTo(pgs) ==
    /\ authenticated /\ ~rerun
    /\ \E pg \in pgs \ {page} :
        LET ev == Event("nav", 0, pg) IN \E e \in EnvsOf(ev) : Run(ev, e)

Navigate == NavigateTo(Pages)

FilterChange ==
    /\ authenticated /\ ~rerun /\ page = "Content Review"
    /\ \E f \in Filters \ {status_filter} :
        LET ev == Event("filter", 0, f) IN \E e \in EnvsOf(ev) : Run(ev, e)

\* The forms submitted: complete ones, and ones with a single defect (no
\* product id, an empty title or description, price 0).
Forms ==
    {[pid |-> p, filled |-> TRUE, price |-> 1] : p \in 0..NumProducts}
    \cup {[pid |-> p, filled |-> FALSE, price |-> 1] : p \in ProductIds}
    \cup {[pid |-> p, filled |-> TRUE, price |-> 0] : p \in ProductIds}

AddProductSubmit ==
    /\ authenticated /\ ~rerun /\ page = "Product Management"
    /\ \E form \in Forms :
        LET ev == [Event("add", 0, "") EXCEPT !.form = form]
        IN \E e \in EnvsOf(ev) : Run(ev, e)

ClearForm ==
    /\ authenticated /\ ~rerun /\ page = "Product Management"
    /\ LET ev == Event("clear_form", 0, "") IN \E e \in EnvsOf(ev) : Run(ev, e)

Regenerate ==
    /\ authenticated /\ ~rerun /\ page = "Product Management"
    /\ \E p \in ProductIds :
        LET ev == Event("regen", p, "") IN \E e \in EnvsOf(ev) : Run(ev, e)

DeleteClick ==
    /\ authenticated /\ ~rerun /\ page = "Product Management"
    /\ \E p \in ProductIds :
        LET ev == Event("delete", p, "") IN \E e \in EnvsOf(ev) : Run(ev, e)

YesDelete ==
    /\ authenticated /\ ~rerun /\ page = "Product Management"
    /\ \E p \in confirm_delete :
        LET ev == Event("yes_delete", p, "") IN \E e \in EnvsOf(ev) : Run(ev, e)

CancelDelete ==
    /\ authenticated /\ ~rerun /\ page = "Product Management"
    /\ \E p \in confirm_delete :
        LET ev == Event("cancel", p, "") IN \E e \in EnvsOf(ev) : Run(ev, e)

Approve ==
    /\ authenticated /\ ~rerun /\ page = "Content Review"
    /\ \E c \in ContentIds :
        LET ev == Event("approve", c, "") IN \E e \in EnvsOf(ev) : Run(ev, e)

RejectClick ==
    /\ authenticated /\ ~rerun /\ page = "Content Review"
    /\ \E c \in ContentIds :
        LET ev == Event("reject", c, "") IN \E e \in EnvsOf(ev) : Run(ev, e)

ConfirmReject ==
    /\ authenticated /\ ~rerun /\ page = "Content Review"
    /\ \E c \in {x \in ContentIds : show_reject[x] = "true"}, rs \in Reasons :
        LET ev == [Event("confirm_reject", c, "") EXCEPT !.reason = rs]
        IN \E e \in EnvsOf(ev) : Run(ev, e)

\* Settings' "Re-analyze Brand Voice" button only shows a note.
Reanalyze ==
    /\ authenticated /\ ~rerun /\ page = "Settings"
    /\ LET ev == Event("reanalyze", 0, "") IN \E e \in EnvsOf(ev) : Run(ev, e)

\* The server turns to another session: the next run is that session's, on
\* that session's own st.session_state.
Switch ==
    /\ \E s \in Sessions \ {current} :
        /\ current' = s
        /\ sessions' = [sessions EXCEPT ![current] = ThisSession, ![s] = NoSession]
        /\ authenticated' = sessions[s].authenticated
        /\ username' = sessions[s].username
        /\ db_connection' = sessions[s].db_connection
        /\ confirm_delete' = sessions[s].confirm_delete
        /\ show_reject' = sessions[s].show_reject
        /\ page' = sessions[s].page
        /\ rerun' = sessions[s].rerun
        /\ status_filter' = sessions[s].status_filter
    /\ UNCHANGED <<conn_closed, conn_tx, products, content, last_login, webhook_url,
                   api_key, last, call, pure>>

\* The upstream automation changes a product's status between runs.
ProductAutomation ==
    /\ \E p \in ProductIds, s \in ProductStatuses :
        /\ products[p] \notin {Absent, s}
        /\ products' = [products EXCEPT ![p] = s]
    /\ UNCHANGED <<authenticated, username, db_connection, confirm_delete, show_reject,
                   page, rerun, conn_closed, conn_tx, content, last_login, webhook_url,
                   api_key, status_filter, last, call, pure, sessions, current>>

\* The webhook receiver changes a content item's status between runs.
ContentAutomation ==
    /\ \E c \in ContentIds, s \in ContentStatuses :
        /\ content[c] # s
        /\ content' = [content EXCEPT ![c] = s]
    /\ UNCHANGED <<authenticated, username, db_connection, confirm_delete, show_reject,
                   page, rerun, conn_closed, conn_tx, products, last_login, webhook_url,
                   api_key, status_filter, last, call, pure, sessions, current>>

\* ------------------------------------------------------ the session gate
\* The runs every session makes: page loads, logins, logouts, navigation.
\* No run of these reads the webhook URL.
Init == InitWith({TRUE}, BOOLEAN)

Next ==
    \/ View \/ LoginSubmit \/ Logout \/ Navigate

Spec == Init /\ [][Next]_vars

\* ---------------------------------------------------------- content review
\* A session that stays on the first page and on Content Review, while the
\* content table stays as it is.
ReviewPages == {DefaultPage, "Content Review"}
NavigateReview == NavigateTo(ReviewPages)

InitReview == InitWith(BOOLEAN, {TRUE})

NextReview ==
    \/ View \/ LoginSubmit \/ Logout \/ NavigateReview \/ FilterChange
    \/ Approve \/ RejectClick \/ ConfirmReject

SpecReview == InitReview /\ [][NextReview]_vars

\* ------------------------------------------------------------ two sessions
\* Sessions of the same server process taking turns: page loads, logins and
\* logouts of each, with the queries of the first page.
InitSessions == InitWith({TRUE}, {FALSE})

NextSessions ==
    \/ View \/ LoginSubmit \/ Logout \/ Switch

SpecSessions == InitSessions /\ [][NextSessions]_vars

\* ------------------------------------------------------ product management
\* A session that stays on the first page and on Product Management, with
\* no API key, while the upstream automation moves products along.
ProductPages == {DefaultPage, "Product Management"}
NavigateProducts == NavigateTo(ProductPages)

InitProducts == InitWith({TRUE}, {FALSE})

NextProducts ==
    \/ View \/ LoginSubmit \/ Logout \/ NavigateProducts
    \/ AddProductSubmit \/ ClearForm \/ Regenerate
    \/ DeleteClick \/ YesDelete \/ CancelDelete
    \/ ProductAutomation

SpecProducts == InitProducts /\ [][NextProducts]_vars

\* ------------------------------------------------------------- the writes
\* A session that uses every button that reaches the database or the
\* webhook: the Product Management and the Content Review buttons.
WritePages == {DefaultPage, "Product Management", "Content Review"}
NavigateWrites == NavigateTo(WritePages)

InitWrites == InitWith({TRUE}, {FALSE})

NextWrites ==
    \/ View \/ LoginSubmit \/ Logout \/ NavigateWrites
    \/ AddProductSubmit \/ ClearForm \/ Regenerate \/ DeleteClick \/ YesDelete \/ CancelDelete
    \/ Approve \/ RejectClick \/ ConfirmReject

SpecWrites == InitWrites /\ [][NextWrites]_vars

\* ---------------------------------------------------------- the gateway
\* The statements of the call sites, and one the database refuses.
CallStmts ==
    {Stmt(k, 0) : k \in {"select_products", "select_other", "invalid"}}
    \cup {ContentStmt(f) : f \in Filters}
    \cup {Stmt(k, p) : k \in WriteKinds, p \in ProductIds}

\* One execute_query call made by a run of the dashboard.
QueryCall ==
    /\ authenticated
    /\ \E stmt \in CallStmts, fetch \in BOOLEAN, f \in QueryFaults :
        \E w \in {RunStart.w} : \E o \in {execute_query(w, stmt, fetch, f, content)} :
           /\ SetWorld(o.w)
           /\ call' = [op |-> "query", stmt |-> stmt, fetch |-> fetch, fault |-> f,
                       result |-> o.result, raised |-> o.raised,
                       had_conn |-> IsOpen(w, w.conn),
                       tx_before |-> IF IsOpen(w, w.conn) THEN w.tx[w.conn] ELSE "idle",
                       refused |-> SqlRefuses(stmt, w),
                       products_before |-> products,
                       prev_failed |-> call.op = "query" /\ call.result = ResNone,
                       prev_invalid |-> call.op = "query" /\ call.stmt.kind = "invalid"]
    /\ rerun' = FALSE
    /\ last' = Last(Event("call", 0, ""), RunStart)
    /\ UNCHANGED <<authenticated, username, confirm_delete, show_reject, page, content,
                   webhook_url, api_key, status_filter, pure, sessions, current>>

\* The gateway call by call: logins, logouts and single execute_query calls
\* in any order a sequence of runs can make them.
\* No call of these reads the webhook URL or the API key.
InitGateway == InitWith({TRUE}, {TRUE})

NextGateway == LoginSubmit \/ Logout \/ QueryCall

SpecGateway == InitGateway /\ [][NextGateway]_vars

\* ------------------------------------------------------ the product listing
\* The listing query on its own: a table and a choice of filters, then the
\* rows returned.
ListingInputs ==
    [op : {"listing"}, table : Tables, fsource : Sources \cup {"All"},
     fstatus : ProductStatuses \cup {"All"}, fcategory : Categories \cup {"All"},
     term : Terms, done : {FALSE}, rows : {{}}]

InitListing == InitState({TRUE}, {TRUE}) /\ pure \in ListingInputs

ViewProducts ==
    /\ pure.op = "listing" /\ ~pure.done
    /\ pure' = [pure EXCEPT !.done = TRUE,
                            !.rows = ProductListing(pure.table, pure.fsource, pure.fstatus,
                                                    pure.fcategory, pure.term)]
    /\ UNCHANGED <<authenticated, username, db_connection, confirm_delete, show_reject,
                   page, rerun, conn_closed, conn_tx, products, content, last_login,
                   webhook_url, api_key, status_filter, last, call, sessions, current>>

SpecListing == InitListing /\ [][ViewProducts]_vars

\* ------------------------------------------------------- the success flags
\* A platform's object in the analytics response: for each key its value,
\* "none" when the object has no such key, and whether the response has an
\* object for the platform at all.
MaxItems == 2
FlagValues == {"none", "true", "false"}
AbsentObject == [present |-> FALSE, success |-> "none", followers |-> "none"]
EmptyObject == [present |-> TRUE, success |-> "none", followers |-> "none"]
PlatformObjects ==
    {AbsentObject} \cup [present : {TRUE}, success : FlagValues, followers : {"none", "100"}]

\* The items of the upload history and the platform multiselect.
Platforms == {"tiktok", "facebook"}
HistoryItems == [platform : Platforms \cup {"none"}, success : FlagValues]
Histories == UNION {[1..n -> HistoryItems] : n \in 0..MaxItems}

\* `not x.get('success') == False`, which Python reads as
\* not (x.get('success') == False).
NotFailed(obj) == ~(obj.success = "false")

\* Dashboard Overview: x = analytics.get(platform, {}); if x and not
\* x.get('success') == False.
OverviewCardDefaulted(x) == x # EmptyObject /\ NotFailed(x)
OverviewCardShown(obj) == OverviewCardDefaulted(IF obj.present THEN obj ELSE EmptyObject)

\* Analytics Dashboard: if platform in platform_filter and platform in
\* analytics: x = analytics[platform]; if not x.get('success') == False.
AnalyticsMetricsShown(selected, obj) ==
    selected /\ obj.present /\ NotFailed(obj)

\* The upload-history summary: shown when the history has items; counts
\* over the items whose platform is selected.
Filtered(items, filter) == {i \in DOMAIN items : items[i].platform \in filter}
Successful(items, filter) == {i \in Filtered(items, filter) : items[i].success = "true"}
SummaryOf(total, successful) ==
    [total |-> total, successful |-> successful, failed |-> total - successful,
     rate |-> IF total > 0 THEN [num |-> successful * 100, den |-> total]
              ELSE [num |-> 0, den |-> 1]]
HistorySummary(items, filter) ==
    [shown |-> items # <<>>,
     summary |-> SummaryOf(Cardinality(Filtered(items, filter)),
                           Cardinality(Successful(items, filter)))]

NoSummary == SummaryOf(0, 0)
FlagInputs ==
    {[op |-> o, obj |-> x, selected |-> sel, items |-> <<>>, filter |-> {},
      done |-> FALSE, shown |-> FALSE, summary |-> NoSummary] :
        o \in {"overview", "metrics"}, x \in PlatformObjects, sel \in BOOLEAN}
    \cup {[op |-> "history", obj |-> AbsentObject, selected |-> FALSE, items |-> h, filter |-> f,
           done |-> FALSE, shown |-> FALSE, summary |-> NoSummary] :
        h \in Histories, f \in SUBSET Platforms}

InitFlags == InitState({TRUE}, {TRUE}) /\ pure \in FlagInputs

Unchanged ==
    UNCHANGED <<authenticated, username, db_connection, confirm_delete, show_reject,
                page, rerun, conn_closed, conn_tx, products, content, last_login,
                webhook_url, api_key, status_filter, last, call, sessions, current>>

\* Dashboard Overview draws a platform's card.
OverviewCard ==
    /\ pure.op = "overview" /\ ~pure.done
    /\ pure' = [pure EXCEPT !.done = TRUE, !.shown = OverviewCardShown(pure.obj)]
    /\ Unchanged

\* Analytics Dashboard draws a platform's metrics.
AnalyticsMetrics ==
    /\ pure.op = "metrics" /\ ~pure.done
    /\ pure' = [pure EXCEPT !.done = TRUE,
                            !.shown = AnalyticsMetricsShown(pure.selected, pure.obj)]
    /\ Unchanged

\* Analytics Dashboard draws the upload-history summary.
UploadHistory ==
    /\ pure.op = "history" /\ ~pure.done
    /\ \E h \in {HistorySummary(pure.items, pure.filter)} :
          pure' = [pure EXCEPT !.done = TRUE, !.shown = h.shown, !.summary = h.summary]
    /\ Unchanged

NextFlags == OverviewCard \/ AnalyticsMetrics \/ UploadHistory

SpecFlags == InitFlags /\ [][NextFlags]_vars

\* ------------------------------------------------------ the overview totals
\* The analytics response of Dashboard Overview: for each of the four
\* platforms whether it has an object, the object's success flag and its
\* three metrics (0 also stands for a key the object does not have, which
\* .get(key, 0) reads as 0).
MaxMetric == 1
MetricKeys == {"followers", "reach", "impressions"}
NoMetrics == [k \in MetricKeys |-> 0]
MetricObjects ==
    {[present |-> FALSE, success |-> "none", metrics |-> NoMetrics]}
    \cup [present : {TRUE}, success : FlagValues, metrics : [MetricKeys -> 0..MaxMetric]]
EmptyMetricObject == [present |-> TRUE, success |-> "none", metrics |-> NoMetrics]

\* x = analytics.get(platform, {}).
Defaulted(obj) == IF obj.present THEN obj ELSE EmptyMetricObject

\* if x and not x.get('success') == False: the platform's card is drawn.
CardShown(obj) == Defaulted(obj) # EmptyMetricObject /\ NotFailed(Defaulted(obj))

\* Lines 517-534: each total adds x.get(key, 0) of the four objects.
TotalOf(a, key) ==
    Defaulted(a.tiktok).metrics[key] + Defaulted(a.youtube).metrics[key]
    + Defaulted(a.instagram).metrics[key] + Defaulted(a.facebook).metrics[key]

OverviewTotals(a) ==
    [cards |-> [tiktok |-> CardShown(a.tiktok), youtube |-> CardShown(a.youtube),
                instagram |-> CardShown(a.instagram), facebook |-> CardShown(a.facebook)],
     totals |-> [k \in MetricKeys |-> TotalOf(a, k)]]

TotalsInputs ==
    [op : {"totals"},
     analytics : [tiktok : MetricObjects, youtube : MetricObjects,
                  instagram : MetricObjects, facebook : MetricObjects],
     done : {FALSE},
     cards : {[tiktok |-> FALSE, youtube |-> FALSE, instagram |-> FALSE, facebook |-> FALSE]},
     totals : {NoMetrics}]

InitTotals == InitState({TRUE}, {TRUE}) /\ pure \in TotalsInputs

\* Dashboard Overview draws the platform cards and the totals.
PlatformTotals ==
    /\ pure.op = "totals" /\ ~pure.done
    /\ \E o \in {OverviewTotals(pure.analytics)} :
          pure' = [pure EXCEPT !.done = TRUE, !.cards = o.cards, !.totals = o.totals]
    /\ Unchanged

SpecTotals == InitTotals /\ [][PlatformTotals]_vars

\* ------------------------------------------------- the content review query
\* The query text as the pieces the builder concatenates, the content table
\* as id -> status (the product each row joins is taken to exist), and the
\* two select boxes.
MaxReviewRows == 3
ReviewIds == 1..MaxReviewRows
SortOrders == {"Newest First", "Oldest First"}
SqlSelectContent == "SELECT ... FROM content c JOIN products p ON c.product_id = p.id WHERE 1=1"
SqlAndStatus == " AND c.status = '"
SqlQuote == "'"
SqlOrderBy == " ORDER BY c.created_at "

\* The builder adding the status predicate for every selection, "All" too.
ContentQuery_always(flt, sort) ==
    <<SqlSelectContent>> \o <<SqlAndStatus, flt, SqlQuote>>
    \o <<SqlOrderBy, IF sort = "Newest First" THEN "DESC" ELSE "ASC">>

\* Lines 992-1011: the base query, the status predicate unless the
\* selection is "All", the ordering.
ContentQuery(flt, sort) ==
    <<SqlSelectContent>>
    \o (IF flt # "All" THEN <<SqlAndStatus, flt, SqlQuote>> ELSE <<>>)
    \o <<SqlOrderBy, IF sort = "Newest First" THEN "DESC" ELSE "ASC">>

\* The values the text compares c.status with.
SplicedValues(text) == {text[i + 1] : i \in {j \in 1..(Len(text) - 1) : text[j] = SqlAndStatus}}

\* The ids of the rows the database returns for the text.
ContentRows(text, table) ==
    {i \in ReviewIds : table[i] # Absent /\ \A v \in SplicedValues(text) : table[i] = v}

ContentQueryInputs ==
    [op : {"review"}, flt : Filters, sort : SortOrders,
     table : [ReviewIds -> ContentStatuses \cup {Absent}],
     done : {FALSE}, text : {<<>>}, rows : {{}}]

InitContentQuery == InitState({TRUE}, {TRUE}) /\ pure \in ContentQueryInputs

\* Content Review builds its query and runs it.
ReviewQuery ==
    /\ pure.op = "review" /\ ~pure.done
    /\ \E q \in {ContentQuery(pure.flt, pure.sort)} :
          pure' = [pure EXCEPT !.done = TRUE, !.text = q,
                                  !.rows = ContentRows(q, pure.table)]
    /\ Unchanged

SpecContentQuery == InitContentQuery /\ [][ReviewQuery]_vars

\* ------------------------------------------------------- the configuration
\* Every page and the Content Review buttons, with the webhook URL and the
\* API key each set or not.
InitConfig == InitWith(BOOLEAN, BOOLEAN)

NextConfig ==
    \/ View \/ LoginSubmit \/ Logout \/ Navigate
    \/ Approve \/ RejectClick \/ ConfirmReject

SpecConfig == InitConfig /\ [][NextConfig]_vars

\* ------------------------------------------------------------ the claims
OpenConns == {c \in ConnIds : ~conn_closed[c]}
LoginFailed == last.login.submitted /\ ~last.login.ok
LoginSucceeded == last.login.submitted /\ last.login.ok

\* C1: a run that starts unauthenticated draws only the login page and
\* makes no execute_query call, no webhook POST and no analytics GET.
C1_GateBlocksDashboard ==
    ~last.startAuth =>
        /\ last.rendered \subseteq {"login"}
        /\ last.nq = 0 /\ last.np = 0 /\ last.ng = 0

\* The run of a successful login: authenticated is set inside a run that
\* started unauthenticated.
C1_Witness ==
    /\ ~last.startAuth /\ LoginSucceeded /\ authenticated
    /\ last.rendered = {"login"}

\* C2 (as claimed): after a failed login attempt authenticated is false,
\* username is None and no connection is open or stored in the session.
C2_FailedLoginLeavesNoConnection ==
    LoginFailed =>
        /\ ~authenticated /\ username = NoUser
        /\ db_connection = NoConn /\ OpenConns = {}

\* C3: right after a successful login exactly one connection is open, the
\* stored one; right after logout none is open and none is stored.
C3_OneConnectionAfterLoginNoneAfterLogout ==
    /\ LoginSucceeded => OpenConns = {db_connection}
    /\ last.event = "logout" => OpenConns = {} /\ db_connection = NoConn

\* A logout whose stored connection was already closed (lost during a query).
C3_Witness ==
    /\ last.event = "logout" /\ last.conn_before = "closed"
    /\ OpenConns = {}

\* C4 (as claimed): a login succeeds exactly when the credential check
\* returns valid for the submitted pair.
C4_SucceedsIffCheckValid ==
    last.login.submitted => (last.login.ok <=> last.login.check = "valid")

\* C4 (amended): a login succeeds exactly when the credential check returns
\* valid and the last_login update of that user is committed; on success the
\* session is authenticated with the submitted username; authenticated holds
\* exactly when username is not None.
C4_LoginSuccess ==
    /\ last.login.submitted =>
          (last.login.ok <=>
              /\ last.login.check = "valid"
              /\ last.login.user \in StoredUsers
              /\ last_login[last.login.user] = "now")
    /\ LoginSucceeded => authenticated /\ username = last.login.user
    /\ authenticated <=> username # NoUser

\* A successful login of the second stored user.
C4_Witness ==
    /\ LoginSucceeded /\ authenticated /\ username = "bob"
    /\ last_login["bob"] = "now"

\* C6 (as claimed): whatever made the login fail, the messages shown are the
\* generic invalid-credentials message and nothing else.
C6_FailedLoginShowsGenericMessageOnly ==
    LoginFailed => last.msgs = {MsgInvalidLogin}

\* C9 (as claimed): after a login attempt that raised a database error in
\* the check or in the last_login update, a login attempt with valid
\* credentials that meets no fault of its own succeeds.
C9_LoginAfterDatabaseErrorSucceeds ==
    (/\ last.login.submitted /\ last.login.after_error
     /\ last.login.fault = "ok"
     /\ verify_dashboard_password(last.login.user, last.login.password))
        => last.login.ok

\* The call met an error: no connection could be opened, the statement or
\* its commit raised, the transaction was already aborted, or there was
\* nothing to fetch.
CallError ==
    \/ ~call.had_conn /\ call.fault = "connect_fail"
    \/ call.fault \in {"exec_error", "exec_lost", "rollback_lost"}
    \/ call.refused
    \/ call.had_conn /\ call.tx_before = "aborted"
    \/ call.fetch /\ call.stmt.kind \notin ReadKinds
    \/ ~call.fetch /\ call.fault = "commit_lost"

\* C7: execute_query never raises; it returns None exactly when the call met
\* an error, otherwise the fetched rows when fetch is true, and True after
\* the commit (with the write applied) when fetch is false.
C7_ExecuteQueryContract ==
    call.op = "query" =>
        /\ ~call.raised
        /\ CallError <=> call.result = ResNone
        /\ (~CallError /\ call.fetch) =>
              call.result = ResRows(SqlRows(call.stmt, [products |-> products], content))
        /\ (~CallError /\ ~call.fetch) =>
              /\ call.result = ResTrue
              /\ conn_tx[db_connection] = "idle"
              /\ products = SqlApply(call.stmt, call.products_before)

\* A refused statement whose rollback failed as well returned None.
C7_Witness ==
    /\ call.op = "query" /\ call.fault = "rollback_lost" /\ call.had_conn
    /\ call.result = ResNone /\ ~call.raised

\* C8: after execute_query returned None for an invalid statement, a call
\* with a statement the database accepts, meeting no fault of its own,
\* succeeds.
C8_FailedQueryDoesNotPoison ==
    (/\ call.op = "query" /\ call.prev_failed /\ call.prev_invalid
     /\ call.fault = "ok" /\ ~call.refused
     /\ (call.fetch <=> call.stmt.kind \in ReadKinds))
        => call.result # ResNone

\* Such a call, made on the connection the failed call used.
C8_Witness ==
    /\ call.op = "query" /\ call.prev_failed /\ call.prev_invalid
    /\ call.fault = "ok" /\ ~call.refused /\ call.had_conn
    /\ call.stmt.kind = "insert_product" /\ call.result = ResTrue

\* C5 (as claimed): after logout the session holds no authenticated flag, no
\* username, no connection and no confirm_delete or show_reject key.
C5_LogoutClearsAllSessionState ==
    last.event = "logout" =>
        /\ ~authenticated /\ username = NoUser /\ db_connection = NoConn
        /\ confirm_delete = {}
        /\ \A c \in ContentIds : show_reject[c] = "absent"

\* C10: a run makes at most one webhook POST; send_approval_webhook returns
\* True only after a POST that the receiver answered 2xx; when it returns
\* False an error is shown, the item's show_reject key keeps its value, the
\* stored connection is the same and no rerun is asked for.
C10_WebhookNoRetryNoStateChange ==
    last.webhook.called =>
        /\ last.np <= 1
        /\ last.webhook.ok <=> (webhook_url /\ last.webhook.http = "ok")
        /\ last.webhook.ok => last.np = 1
        /\ ~last.webhook.ok =>
              /\ last.msgs \cap {MsgWebhookFailed, MsgWebhookUnset} # {}
              /\ show_reject[last.item] = last.webhook.sr_before
              /\ db_connection = last.webhook.conn_before
              /\ authenticated /\ ~rerun

\* A Confirm Reject whose POST timed out: one POST, the modal still open.
C10_Witness ==
    /\ last.event = "confirm_reject" /\ last.webhook.called /\ ~last.webhook.ok
    /\ last.webhook.http = "timeout" /\ last.np = 1
    /\ show_reject[last.item] = "true" /\ ~rerun

\* C11: get_upload_post_analytics never raises and returns None on every
\* failure (timeout, network error, non-2xx, unparsable body); when it
\* returns None the sidebar shows no follower/view metrics, and the stats
\* query and the page of that run are still evaluated.
C11_AnalyticsFailureDegrades ==
    last.sidebar =>
        /\ ~last.analytics.raised /\ ~last.crashed
        /\ last.afault \in GetFaults => last.analytics.data = "none"
        /\ last.analytics.data = "none" =>
              /\ ~last.metrics
              /\ last.nq >= 2
              /\ last.rendered = {page}

\* A run whose analytics GET returned a body that is no JSON.
C11_Witness ==
    /\ last.sidebar /\ api_key /\ last.afault = "bad_body"
    /\ last.analytics.gets = 1 /\ last.analytics.data = "none"
    /\ ~last.metrics /\ last.nq >= 2 /\ last.rendered = {page}

\* C12: with the webhook URL unset send_approval_webhook makes no POST and
\* returns False; with the API key unset no run makes an analytics GET on
\* any page and the analytics fetch yields None; the run completes in both
\* cases.
C12_UnconfiguredFeaturesDegrade ==
    /\ (last.webhook.called /\ ~webhook_url) =>
          /\ last.np = 0 /\ ~last.webhook.ok
          /\ MsgWebhookUnset \in last.msgs
          /\ ~last.crashed /\ last.rendered = {page}
    /\ (last.sidebar /\ ~api_key) =>
          /\ last.ng = 0 /\ last.analytics.data = "none" /\ ~last.analytics.raised
          /\ ~last.crashed /\ last.rendered = {page}

\* An Approve click with neither the webhook URL nor the API key set.
C12_Witness ==
    /\ last.event = "approve" /\ last.webhook.called /\ ~webhook_url /\ ~api_key
    /\ last.np = 0 /\ last.ng = 0 /\ ~last.webhook.ok

\* The rows of the table that satisfy every filter that is not "All" and,
\* when the search term is not empty, whose title contains it, ignoring case.
Contains(title, term) ==
    \E k \in 0..(Len(title) - Len(term)) :
        \A i \in 1..Len(term) : Lower(title[k + i]) = Lower(term[i])

Wanted(table, fsource, fstatus, fcategory, term) ==
    {row \in table :
        /\ fsource = "All" \/ row.source = fsource
        /\ fstatus = "All" \/ row.status = fstatus
        /\ fcategory = "All" \/ row.category = fcategory
        /\ term = <<>> \/ Contains(row.title, term)}

\* C13 (as claimed): for every table and every choice of filters and search
\* term the listing returns exactly the rows that satisfy every non-"All"
\* filter and whose title contains the search term, ignoring case.
C13_ListingEqualsFilteredRows ==
    (pure.op = "listing" /\ pure.done) =>
        pure.rows = Wanted(pure.table, pure.fsource, pure.fstatus, pure.fcategory, pure.term)

\* The form of the last run passes the validation.
ValidForm == last.form.pid # 0 /\ last.form.filled /\ last.form.price > 0

\* The last run showed a database error.
DbErrorShown == last.msgs \cap {MsgConnFailed, MsgQueryFailed} # {}

\* C14: when a valid Add Product form names a product id that is not in the
\* table and the database serves the run, the run adds exactly that row,
\* with status pending_content_generation, leaves every other row as it
\* was, reports success, and its listing shows the row with that status.
C14_AddCreatesPendingRow ==
    (last.event = "add" /\ ValidForm /\ ~DbErrorShown
        /\ last.products_before[last.form.pid] = Absent) =>
        /\ last.products_after =
              [last.products_before EXCEPT ![last.form.pid] = "pending_content_generation"]
        /\ MsgAdded \in last.msgs
        /\ [id |-> last.form.pid, status |-> "pending_content_generation"] \in last.listing

\* A valid form for a new product id was submitted and the row is listed.
C14_Witness ==
    /\ last.event = "add" /\ ValidForm /\ ~DbErrorShown
    /\ last.products_before[last.form.pid] = Absent
    /\ last.products_after[last.form.pid] = "pending_content_generation"
    /\ last.listing # {}

\* C16: when the Add Product form is submitted with an empty product id,
\* title or description, or with a price that is not positive, the run
\* hands no INSERT to execute_query, leaves the products table as it was
\* and shows a validation error and no success message.
C16_ValidationPrecedesWrite ==
    (last.event = "add" /\ ~ValidForm) =>
        /\ "insert_product" \notin last.stmts
        /\ last.products_after = last.products_before
        /\ last.msgs \cap {MsgRequired, MsgPrice} # {}
        /\ last.msgs \cap {MsgAdded, MsgAddFailed} = {}

\* A filled form with price 0 was submitted: the price error is shown.
C16_Witness ==
    /\ last.event = "add" /\ last.form.pid # 0 /\ last.form.filled
    /\ last.form.price <= 0 /\ MsgPrice \in last.msgs
    /\ "select_products" \in last.stmts

\* C15 (as claimed): a confirmed delete that finds the row removes it and
\* leaves every other row as it was; a confirmed delete of a row that
\* another session has already deleted leaves the table unchanged, does not
\* crash and does not report success.
C15_DeleteIdempotentNotFound ==
    (last.event = "yes_delete" /\ "delete_product" \in last.stmts /\ ~DbErrorShown) =>
        /\ last.products_after = [last.products_before EXCEPT ![last.item] = Absent]
        /\ ~last.crashed
        /\ last.raced => MsgDeleted \notin last.msgs

\* The write statement each widget event may hand to execute_query.
WritesOf(kind) ==
    CASE kind = "add" -> {"insert_product"}
      [] kind = "regen" -> {"update_status"}
      [] kind = "yes_delete" -> {"delete_product"}
      [] OTHER -> {}

\* C17: every statement a run hands to execute_query is a SELECT, the
\* product INSERT, the product status UPDATE or the product DELETE, each
\* write only in the run of its own button; last_login is updated only by a
\* login; an Approve or Confirm Reject run issues no write, leaves the
\* products table and last_login as they were and reports success only
\* after its one webhook POST.
C17_OnlyProductAndLoginWrites ==
    /\ last.stmts \subseteq ReadKinds \cup WritesOf(last.event)
    /\ last.event # "login" => \A u \in StoredUsers : last_login[u] = "stale"
    /\ last.products_after # last.products_before => last.stmts \cap WriteKinds # {}
    /\ last.event \in {"approve", "reject", "confirm_reject"} =>
          /\ last.stmts \subseteq ReadKinds
          /\ last.products_after = last.products_before
          /\ (last.msgs \cap {MsgApproved, MsgRejected} # {}) =>
                (last.np = 1 /\ last.webhook.ok)

\* An approval that went through: one POST, only SELECTs.
C17_Witness ==
    /\ last.event = "approve" /\ MsgApproved \in last.msgs /\ last.np = 1
    /\ last.stmts = {"select_other", "select_content"}
    /\ \E p \in ProductIds : products[p] # Absent

\* The connection a session references.
ConnOf(s) == IF s = current THEN db_connection ELSE sessions[s].db_connection

\* C18: no two sessions reference the same connection object, and a run of
\* one session (a page load with its queries, a login, a logout) leaves the
\* session state of every other session, its authenticated flag included,
\* and the closed flag and the transaction of every other session's
\* connection as they were.
C18_ConnectionOwnedByOneSession ==
    /\ [](\A s, t \in Sessions : (s # t /\ ConnOf(s) # NoConn) => ConnOf(s) # ConnOf(t))
    /\ [][current' = current =>
            \A s \in Sessions \ {current} :
                /\ sessions'[s] = sessions[s]
                /\ sessions[s].db_connection # NoConn =>
                      /\ conn_closed'[sessions[s].db_connection]
                            = conn_closed[sessions[s].db_connection]
                      /\ conn_tx'[sessions[s].db_connection]
                            = conn_tx[sessions[s].db_connection]]_vars

\* One session has just logged out while another is logged in on its own
\* open connection.
C18_Witness ==
    /\ last.event = "logout" /\ ~authenticated /\ db_connection = NoConn
    /\ \E s \in Sessions \ {current} :
          /\ sessions[s].authenticated
          /\ IsOpen(World, sessions[s].db_connection)

\* C19 (as claimed): when an execute_query call or a login check has
\* returned, the session's connection, if it is open, has no transaction in
\* progress; and every write statement is executed on a connection that had
\* no transaction in progress when the call began.
C19_CommitPerStatement ==
    /\ (last.event \in {"call", "login"} /\ IsOpen(World, db_connection)) =>
          conn_tx[db_connection] = "idle"
    /\ (call.op = "query" /\ call.stmt.kind \in WriteKinds /\ call.had_conn) =>
          call.tx_before = "idle"

\* C20 (as claimed): a platform's metrics are shown, on Dashboard Overview
\* and on the Analytics Dashboard with the platform selected, exactly when
\* its object is present, not empty and its success flag is not false; the
\* upload-history summary counts an item as successful only when its
\* success flag is true, counts every other filtered item as failed, so that
\* successful + failed is the number of filtered items, and gives a success
\* rate of 0 when there is none.
C20_SuccessFlagSemantics ==
    /\ (pure.op = "overview" /\ pure.done) \/ (pure.op = "metrics" /\ pure.done /\ pure.selected) =>
          (pure.shown <=> /\ pure.obj.present
                          /\ pure.obj # EmptyObject
                          /\ pure.obj.success # "false")
    /\ (pure.op = "history" /\ pure.done /\ pure.shown) =>
          /\ pure.summary.total = Cardinality(Filtered(pure.items, pure.filter))
          /\ pure.summary.failed =
                Cardinality({i \in Filtered(pure.items, pure.filter) :
                                pure.items[i].success \in {"none", "false"}})
          /\ pure.summary.successful + pure.summary.failed = pure.summary.total
          /\ pure.summary.total = 0 => pure.summary.rate.num = 0

\* C21: the values spliced into the Content Review query text are among
\* pending_review and rejected; with "All" selected the text has no status
\* predicate, otherwise exactly the selected one; the rows returned are
\* exactly the content rows whose status is the selected option, every row
\* for "All".
C21_StatusFilterFromFixedOptions ==
    (pure.op = "review" /\ pure.done) =>
        /\ SplicedValues(pure.text) \subseteq {"pending_review", "rejected"}
        /\ SplicedValues(pure.text) = IF pure.flt = "All" THEN {} ELSE {pure.flt}
        /\ pure.rows = {i \in ReviewIds : /\ pure.table[i] # Absent
                                           /\ (pure.flt = "All" \/ pure.table[i] = pure.flt)}

\* "All" returned rows of more than one status, with none left out.
C21_Witness ==
    /\ pure.op = "review" /\ pure.done /\ pure.flt = "All"
    /\ SplicedValues(pure.text) = {}
    /\ \E i, j \in pure.rows : pure.table[i] # pure.table[j]

\* C22: in every run, a DELETE is issued only by a "Yes, Delete" click on a
\* product whose confirm_delete flag was set before the run, and the flag is
\* set only by a Delete Product click; a Cancel click issues no DELETE and,
\* when the product's card is drawn, clears the flag; a DELETE that
\* succeeded leaves the flag cleared and the row gone; a DELETE that failed
\* leaves the flag set and the table as it was.
C22_DeleteIsTwoStep ==
    [][/\ "delete_product" \in last'.stmts =>
             /\ last'.event = "yes_delete" /\ last'.item \in confirm_delete
             /\ IF MsgDeleted \in last'.msgs
                THEN last'.item \notin confirm_delete' /\ products'[last'.item] = Absent
                ELSE last'.item \in confirm_delete' /\ products' = products
       /\ confirm_delete' \ confirm_delete # {} =>
             last'.event = "delete" /\ confirm_delete' = confirm_delete \cup {last'.item}
       /\ last'.event = "cancel" =>
             /\ "delete_product" \notin last'.stmts /\ products' = products
             /\ (\E x \in last'.listing : x.id = last'.item) =>
                   last'.item \notin confirm_delete']_vars

\* A confirmed delete failed: the flag is still set and the row in place.
C22_Witness ==
    /\ last.event = "yes_delete" /\ "delete_product" \in last.stmts
    /\ MsgDeleted \notin last.msgs
    /\ last.item \in confirm_delete /\ products[last.item] # Absent

\* C23: in every run, a reject webhook for a content item is sent only by a
\* Confirm Reject click on an item whose show_reject flag was set before the
\* run, and the flag is set only by a Reject click on that item; after the
\* call the flag is cleared when the webhook returned success and still set
\* when it failed, and the flag is cleared in no other run; the body holds
\* the reason typed exactly when the reason is not empty.
C23_RejectIsTwoStep ==
    [][/\ (last'.webhook.called /\ last'.event = "confirm_reject") =>
             /\ show_reject[last'.item] = "true"
             /\ show_reject'[last'.item] = IF last'.webhook.ok THEN "false" ELSE "true"
       /\ (last'.np > 0 /\ last'.webhook.payload.action = "reject") =>
             /\ last'.event = "confirm_reject"
             /\ last'.webhook.payload.content_id = last'.item
             /\ last'.webhook.payload.has_reason <=> last'.reason # ""
             /\ last'.webhook.payload.has_reason => last'.webhook.payload.reason = last'.reason
       /\ \A c \in ContentIds :
             /\ (show_reject'[c] = "true" /\ show_reject[c] # "true") =>
                   last'.event = "reject" /\ last'.item = c
             /\ (show_reject[c] = "true" /\ show_reject'[c] # "true") =>
                   last'.event = "confirm_reject" /\ last'.item = c /\ last'.webhook.ok]_vars

\* A Confirm Reject with an empty reason went through: the flag is cleared
\* and the body has no reason.
C23_Witness ==
    /\ last.event = "confirm_reject" /\ last.webhook.ok /\ last.reason = ""
    /\ ~last.webhook.payload.has_reason /\ show_reject[last.item] = "false"

C25_DuplicateAddFailsCleanly ==
    (last.event = "add" /\ ValidForm /\ last.products_before[last.form.pid] # Absent) =>
        /\ last.products_after = last.products_before
        /\ MsgAddFailed \in last.msgs /\ MsgAdded \notin last.msgs
        /\ last.nfail = 0 =>
              /\ \E x \in last.listing : x.id = last.form.pid
              /\ IsOpen(World, db_connection) /\ conn_tx[db_connection] # "aborted"

\* A duplicate add whose INSERT failed and whose listing query succeeded.
C25_Witness ==
    /\ last.event = "add" /\ ValidForm /\ last.products_before[last.form.pid] # Absent
    /\ MsgAddFailed \in last.msgs /\ last.nfail = 0 /\ last.listing # {}
    /\ "insert_product" \in last.stmts

C27_AtMostOneOpenConnection ==
    /\ [](OpenConns \subseteq {db_connection})
    /\ [][(db_connection' # db_connection /\ db_connection' # NoConn) =>
            ~IsOpen(World, db_connection)]_vars

\* A query reconnected after the stored connection was lost: the new
\* connection is the only open one.
C27_Witness ==
    /\ call.op = "query" /\ ~call.had_conn /\ call.result # ResNone
    /\ call.prev_failed /\ OpenConns = {db_connection}

\* C28: a step changes the authenticated flag or the username only when it
\* is a login that succeeded or a logout; every other run (page loads and
\* page changes with their queries and analytics fetches, Approve, Reject
\* and Confirm Reject with their webhook calls, failed logins), whatever
\* fails in it, leaves both as they were.
C28_AuthChangesOnlyByLoginLogout ==
    [][(authenticated' # authenticated \/ username' # username) =>
          \/ last'.event = "login" /\ last'.login.ok /\ authenticated'
          \/ last'.event = "logout" /\ ~authenticated']_vars

\* A page change whose query failed: the session is still logged in.
C28_Witness ==
    /\ last.event = "nav" /\ MsgQueryFailed \in last.msgs
    /\ authenticated /\ username # NoUser /\ last.startAuth

\* C29: the run that st.rerun() asked for has no widget event and asks for
\* no further rerun, and a rerun is asked for only by a login that
\* succeeded, a logout, Clear Form, Regenerate, "Yes, Delete", Cancel,
\* Approve or Confirm Reject; so a chain of reruns has length one.
C29_RerunChainsEnd ==
    [][/\ rerun => (last'.event = "view" /\ ~rerun')
       /\ rerun' => last'.event \in {"login", "logout", "clear_form", "regen",
                                     "yes_delete", "cancel", "approve", "confirm_reject"}]_vars

\* A delete went through and asked for the rerun.
C29_Witness ==
    /\ last.event = "yes_delete" /\ MsgDeleted \in last.msgs /\ rerun

\* What a platform adds to a total when only displayed cards count.
Shown(card, obj, key) == IF card THEN obj.metrics[key] ELSE 0

\* C30 (as claimed): each total of Dashboard Overview is the sum of the
\* metric over the platforms whose card is drawn; a platform whose card is
\* not drawn adds nothing.
C30_TotalsOverDisplayedCards ==
    (pure.op = "totals" /\ pure.done) =>
        \A k \in MetricKeys :
            pure.totals[k] =
                Shown(pure.cards.tiktok, pure.analytics.tiktok, k)
                + Shown(pure.cards.youtube, pure.analytics.youtube, k)
                + Shown(pure.cards.instagram, pure.analytics.instagram, k)
                + Shown(pure.cards.facebook, pure.analytics.facebook, k)

====
